---- MODULE Spec2Model ----
(***************************************************************************)
(* Model of pkg/mgo/query/query_condition.go: the translation of a list of *)
(* query columns into a MongoDB filter (Params.ConvertToMongoFilter).      *)
(*                                                                         *)
(* Go strings are sequences of one-character strings, so that ToLower,     *)
(* Split, HasSuffix and QuoteMeta are computed.  A Go interface{} value is *)
(* a record tagged by "kind"; a bson.M is the tagged function from its     *)
(* keys to its values.  Slice indexes keep Go's 0-based values; element i  *)
(* of a Go slice is element i+1 of the TLA+ sequence.                      *)
(***************************************************************************)
EXTENDS Integers, Sequences, FiniteSets, TLC

VARIABLES
    columns,    \* columns[c]: p.Columns of the Params call c works on
    opts,       \* opts[c]: the rulerOptions of call c
    frame,      \* frame[c]: position and locals of call c
    ret,        \* ret[c]: the (bson.M, error) call c returned
    validated,  \* validated[c]: the invocations of validateFn made by call c
    steps,      \* steps[c]: history, the steps call c has executed
    input,      \* input[c]: history, the columns call c was invoked with
    expMap,     \* package variable expMap
    logicMap    \* package variable logicMap

vars == <<columns, opts, frame, ret, validated, steps, input, expMap, logicMap>>

-----------------------------------------------------------------------------
(* Bounds *)

MaxCols == 4
NumCalls == 2
ConcMaxCols == 3

-----------------------------------------------------------------------------
(* Strings *)

UpperChars == <<"A","B","C","D","E","F","G","H","I","J","K","L","M",
                "N","O","P","Q","R","S","T","U","V","W","X","Y","Z">>
LowerChars == <<"a","b","c","d","e","f","g","h","i","j","k","l","m",
                "n","o","p","q","r","s","t","u","v","w","x","y","z">>

ToLowerChar(ch) ==
    IF \E k \in 1..Len(UpperChars) : UpperChars[k] = ch
    THEN LowerChars[CHOOSE k \in 1..Len(UpperChars) : UpperChars[k] = ch]
    ELSE ch

ToLower(s) == [k \in 1..Len(s) |-> ToLowerChar(s[k])]

HasSuffix(s, suffix) ==
    /\ Len(s) >= Len(suffix)
    /\ SubSeq(s, Len(s) - Len(suffix) + 1, Len(s)) = suffix

TrimSuffix(s, suffix) ==
    IF HasSuffix(s, suffix) THEN SubSeq(s, 1, Len(s) - Len(suffix)) ELSE s

RECURSIVE SplitFrom(_, _, _, _)
SplitFrom(s, k, cur, acc) ==
    IF k > Len(s) THEN Append(acc, cur)
    ELSE IF s[k] = "," THEN SplitFrom(s, k + 1, <<>>, Append(acc, cur))
    ELSE SplitFrom(s, k + 1, Append(cur, s[k]), acc)

Split(s) == SplitFrom(s, 1, <<>>, <<>>)

MetaChars == {"\\", ".", "+", "*", "?", "(", ")", "|", "[", "]", "{", "}", "^", "$"}

RECURSIVE QuoteMeta(_)
QuoteMeta(s) ==
    IF s = <<>> THEN <<>>
    ELSE (IF Head(s) \in MetaChars THEN <<"\\", Head(s)>> ELSE <<Head(s)>>)
         \o QuoteMeta(Tail(s))

DigitChars == <<"0","1","2","3","4","5","6","7","8","9">>

RECURSIVE Digits(_)
Digits(n) ==
    IF n < 10 THEN <<DigitChars[n + 1]>>
    ELSE Append(Digits(n \div 10), DigitChars[(n % 10) + 1])

HexChars == {"0","1","2","3","4","5","6","7","8","9",
             "a","b","c","d","e","f","A","B","C","D","E","F"}

-----------------------------------------------------------------------------
(* Values *)

NilV == [kind |-> "nil"]
IntV(n) == [kind |-> "int", n |-> n]
StrV(s) == [kind |-> "str", s |-> s]
OidV(h) == [kind |-> "oid", hex |-> h]
ListV(xs) == [kind |-> "list", items |-> xs]
MapV(m) == [kind |-> "M", m |-> m]

EmptyM == MapV(<<>>)
M1(k, v) == MapV(k :> v)
HasKey(bm, k) == k \in DOMAIN bm.m
SetKey(bm, k, v) == MapV((k :> v) @@ bm.m)

\* fmt.Sprintf("%v", v)
Sprintv(v) ==
    CASE v.kind = "str" -> v.s
      [] v.kind = "int" -> IF v.n < 0 THEN <<"-">> \o Digits(0 - v.n) ELSE Digits(v.n)
      [] v.kind = "oid" -> <<"O","b","j","e","c","t","I","D","(","\"">> \o v.hex \o <<"\"",")">>
      [] OTHER -> <<>>

-----------------------------------------------------------------------------
(* Tokens *)

Eq == <<"e","q">>
eqSymbol == <<"=">>
Neq == <<"n","e","q">>
neqSymbol == <<"!","=">>
Gt == <<"g","t">>
gtSymbol == <<">">>
Gte == <<"g","t","e">>
gteSymbol == <<">","=">>
Lt == <<"l","t">>
ltSymbol == <<"<">>
Lte == <<"l","t","e">>
lteSymbol == <<"<","=">>
Like == <<"l","i","k","e">>
In == <<"i","n">>
NotIn == <<"n","i","n">>
AND == <<"a","n","d">>
andSymbol1 == <<"&">>
andSymbol2 == <<"&","&">>
OR == <<"o","r">>
orSymbol1 == <<"|">>
orSymbol2 == <<"|","|">>
allLogicAnd == 1
allLogicOr == 2

K_ne == <<"$","n","e">>
K_gt == <<"$","g","t">>
K_gte == <<"$","g","t","e">>
K_lt == <<"$","l","t">>
K_lte == <<"$","l","t","e">>
K_regex == <<"$","r","e","g","e","x">>
K_options == <<"$","o","p","t","i","o","n","s">>
K_and == <<"$","a","n","d">>
K_or == <<"$","o","r">>

expMapInit ==
    (Eq :> eqSymbol) @@ (eqSymbol :> eqSymbol) @@
    (Neq :> neqSymbol) @@ (neqSymbol :> neqSymbol) @@
    (Gt :> gtSymbol) @@ (gtSymbol :> gtSymbol) @@
    (Gte :> gteSymbol) @@ (gteSymbol :> gteSymbol) @@
    (Lt :> ltSymbol) @@ (ltSymbol :> ltSymbol) @@
    (Lte :> lteSymbol) @@ (lteSymbol :> lteSymbol) @@
    (Like :> Like) @@ (In :> In) @@ (NotIn :> NotIn) @@
    (<<"n","o","t","i","n">> :> NotIn) @@
    (<<"n","o","t"," ","i","n">> :> NotIn)

\* logicMap without the entries that map the symbols "&" and "|" to themselves
logicMapInit_wordsOnly ==
    (AND :> andSymbol1) @@ (andSymbol2 :> andSymbol1) @@
    (OR :> orSymbol1) @@ (orSymbol2 :> orSymbol1)

logicMapInit ==
    (AND :> andSymbol1) @@ (andSymbol1 :> andSymbol1) @@ (andSymbol2 :> andSymbol1) @@
    (OR :> orSymbol1) @@ (orSymbol1 :> orSymbol1) @@ (orSymbol2 :> orSymbol1)

-----------------------------------------------------------------------------
(* Errors: nil, or the kind of the fmt.Errorf message *)

NoErr == "nil"
ErrNameNotAllowed == "field name is not allowed"
ErrEmptyName == "field 'name' cannot be empty"
ErrNilValue == "field 'value' cannot be nil"
ErrUnknownLogic == "unknown logic type"
ErrInvalidValueType == "invalid value type"
ErrUnsupportedExp == "unsported exp type"
ErrValidate == "validateFn error"

-----------------------------------------------------------------------------
(* Column *)

Col(name, exp, value, logic) ==
    [Name |-> name, Exp |-> exp, Value |-> value, Logic |-> logic]

NilWhitelist == [kind |-> "nil"]

\* whitelists[c.Name] of a Go map[string]bool: false for an absent key
Lookup(whitelists, name) ==
    IF name \in DOMAIN whitelists.m THEN whitelists.m[name] ELSE FALSE

checkName(c, whitelists) ==
    IF c.Name = <<>> \/ (whitelists # NilWhitelist /\ ~Lookup(whitelists, c.Name))
    THEN ErrNameNotAllowed
    ELSE NoErr

checkValid(c) ==
    IF c.Name = <<>> THEN ErrEmptyName
    ELSE IF c.Value = NilV THEN ErrNilValue
    ELSE NoErr

\* the column after the call, and the error returned
convertLogic(c) ==
    LET c1 == IF c.Logic = <<>> THEN [c EXCEPT !.Logic = AND] ELSE c
    IN  IF ToLower(c1.Logic) \in DOMAIN logicMap
        THEN [col |-> [c1 EXCEPT !.Logic = logicMap[ToLower(c1.Logic)]], err |-> NoErr]
        ELSE [col |-> c1, err |-> ErrUnknownLogic]

isObjectID(v) ==
    IF v.kind = "str" /\ Len(v.s) = 24 /\ \A k \in 1..Len(v.s) : v.s[k] \in HexChars
    THEN [oid |-> OidV(ToLower(v.s)), ok |-> TRUE]
    ELSE [oid |-> NilV, ok |-> FALSE]

\* the switch on the normalised operator (lines 182-208)
wrapValue(c) ==
    CASE c.Exp = neqSymbol -> [col |-> [c EXCEPT !.Value = M1(K_ne, c.Value)], err |-> NoErr]
      [] c.Exp = gtSymbol -> [col |-> [c EXCEPT !.Value = M1(K_gt, c.Value)], err |-> NoErr]
      [] c.Exp = gteSymbol -> [col |-> [c EXCEPT !.Value = M1(K_gte, c.Value)], err |-> NoErr]
      [] c.Exp = ltSymbol -> [col |-> [c EXCEPT !.Value = M1(K_lt, c.Value)], err |-> NoErr]
      [] c.Exp = lteSymbol -> [col |-> [c EXCEPT !.Value = M1(K_lte, c.Value)], err |-> NoErr]
      [] c.Exp = Like ->
            [col |-> [c EXCEPT !.Value =
                        MapV((K_regex :> StrV(QuoteMeta(Sprintv(c.Value))))
                             @@ (K_options :> StrV(<<"i">>)))],
             err |-> NoErr]
      [] c.Exp \in {In, NotIn} ->
            IF c.Value.kind # "str"
            THEN [col |-> c, err |-> ErrInvalidValueType]
            ELSE LET ss == Split(c.Value.s)
                     values == [k \in 1..Len(ss) |-> StrV(ss[k])]
                 IN  [col |-> [c EXCEPT !.Value = M1(<<"$">> \o c.Exp, ListV(values))],
                      err |-> NoErr]
      [] OTHER -> [col |-> c, err |-> NoErr]

convert(c) ==
    IF checkValid(c) # NoErr THEN [col |-> c, err |-> checkValid(c)]
    ELSE
    LET o == isObjectID(c.Value)
        c1 == IF ~o.ok THEN c
              ELSE [c EXCEPT !.Value = o.oid,
                             !.Name = IF c.Name = <<"i","d">> THEN <<"_","i","d">>
                                      ELSE IF HasSuffix(c.Name, <<":","o","i","d">>)
                                      THEN TrimSuffix(c.Name, <<":","o","i","d">>)
                                      ELSE c.Name]
        c2 == IF c1.Exp = <<>> THEN [c1 EXCEPT !.Exp = Eq] ELSE c1
    IN  IF ToLower(c2.Exp) \in DOMAIN expMap
        THEN LET w == wrapValue([c2 EXCEPT !.Exp = expMap[ToLower(c2.Exp)]])
             IN  IF w.err # NoErr THEN w ELSE convertLogic(w.col)
        ELSE [col |-> c2, err |-> ErrUnsupportedExp]

\* bson.M{column.Name: column.Value}
Pred(c) == M1(c.Name, c.Value)

-----------------------------------------------------------------------------
(* checkSameLogic and groupingIndex *)

\* the slice a, a+1, ..., b
Range(a, b) == IF b < a THEN <<>> ELSE [k \in 1..(b - a + 1) |-> a + k - 1]

\* the loop of groupingIndex over orIndexes (lines 399-410)
RECURSIVE groupingLoop(_, _, _)
groupingLoop(orIndexes, lastIndex, groupIndexes) ==
    IF orIndexes = <<>> THEN [lastIndex |-> lastIndex, groupIndexes |-> groupIndexes]
    ELSE LET index == Head(orIndexes)
             group == Range(lastIndex, index)
         IN  groupingLoop(Tail(orIndexes),
                          IF lastIndex = index THEN lastIndex + 1 ELSE index,
                          Append(groupIndexes, group))

groupingIndex(l, orIndexes) ==
    LET r == groupingLoop(orIndexes, 0, <<>>)
    IN  Append(r.groupIndexes, Range(r.lastIndex + 1, l - 1))

\* the loop of checkSameLogic (lines 372-383); column is a copy of columns[i]
RECURSIVE logicLoop(_, _, _)
logicLoop(cols, i, orIndexes) ==
    IF i >= Len(cols) \/ i = Len(cols) - 1
    THEN [orIndexes |-> orIndexes, err |-> NoErr]
    ELSE LET r == convertLogic(cols[i + 1])
         IN  IF r.err # NoErr THEN [orIndexes |-> orIndexes, err |-> r.err]
             ELSE logicLoop(cols, i + 1,
                            IF r.col.Logic = orSymbol1 THEN Append(orIndexes, i)
                            ELSE orIndexes)

checkSameLogic(cols) ==
    LET l == Len(cols)
        r == logicLoop(cols, 0, <<>>)
    IN  IF r.err # NoErr
        THEN [logicType |-> 0, groupIndexes |-> <<>>, err |-> r.err]
        ELSE IF Len(r.orIndexes) = 0
        THEN [logicType |-> allLogicAnd, groupIndexes |-> <<>>, err |-> NoErr]
        ELSE IF Len(r.orIndexes) = l - 1
        THEN [logicType |-> allLogicOr, groupIndexes |-> <<>>, err |-> NoErr]
        ELSE [logicType |-> 0, groupIndexes |-> groupingIndex(l, r.orIndexes), err |-> NoErr]

-----------------------------------------------------------------------------
(* The steps of one call.  s is the state of the call: its columns, frame,  *)
(* ret, validated and steps; o is its rulerOptions.  Each step gives the    *)
(* state of the call after it.                                              *)

InitFrame ==
    [pc |-> "validate", i |-> 0, filter |-> NilV, logicType |-> 0,
     groupIndexes |-> <<>>, orConditions |-> <<>>]

Return(s, filter, err) ==
    [s EXCEPT !.ret = [filter |-> filter, err |-> err], !.frame.pc = "done"]

Goto(s, pc) == [s EXCEPT !.frame.pc = pc]

\* if v, ok := filter[key]; !ok {...} else {append} (lines 305-312, 321-328)
appendCond(filter, key, p) ==
    IF ~HasKey(filter, key) THEN SetKey(filter, key, ListV(<<p>>))
    ELSE IF filter.m[key].kind = "list"
    THEN SetKey(filter, key, ListV(Append(filter.m[key].items, p)))
    ELSE filter

\* doValidate with the error of validateFn dropped (a missing return)
doValidate_ignoreErr(s, o) ==
    IF o.validateFn = "none" THEN Goto(s, "switch")
    ELSE Goto([s EXCEPT !.validated =
                    Append(@, [columns |-> s.columns, before |-> s.steps])],
              "switch")

\* lines 228-235
doValidate(s, o) ==
    IF o.validateFn = "none" THEN Goto(s, "switch")
    ELSE LET s1 == [s EXCEPT !.validated =
                        Append(@, [columns |-> s.columns, before |-> s.steps])]
         IN  IF o.validateFn = "reject" THEN Return(s1, NilV, ErrValidate)
             ELSE Goto(s1, "switch")

\* lines 237-241 and the dispatch of the switch
doSwitch(s, o) ==
    LET s1 == [s EXCEPT !.frame.filter = EmptyM]
        l == Len(s.columns)
    IN  IF l = 0 THEN Return(s1, EmptyM, NoErr)
        ELSE IF l = 1 THEN Goto(s1, "case1_checkName")
        ELSE IF l = 2 THEN Goto(s1, "case2_checkName")
        ELSE Goto(s1, "checkSameLogic")

\* lines 244-247
doCase1CheckName(s, o) ==
    LET err == checkName(s.columns[1], o.whitelistNames)
    IN  IF err # NoErr THEN Return(s, NilV, err) ELSE Goto(s, "case1_convert")

\* lines 248-253; p.Columns[0] is converted in place
doCase1Convert(s, o) ==
    LET r == convert(s.columns[1])
        s1 == [s EXCEPT !.columns[1] = r.col]
    IN  IF r.err # NoErr THEN Return(s1, NilV, r.err)
        ELSE LET filter == SetKey(s.frame.filter, r.col.Name, r.col.Value)
             IN  Return([s1 EXCEPT !.frame.filter = filter], filter, NoErr)

\* lines 256-263, one checkName per step
doCase2CheckName(s, o) ==
    LET i == s.frame.i
        err == checkName(s.columns[i + 1], o.whitelistNames)
    IN  IF err # NoErr THEN Return(s, NilV, err)
        ELSE IF i = 0 THEN [s EXCEPT !.frame.i = 1]
        ELSE [s EXCEPT !.frame.i = 0, !.frame.pc = "case2_convert"]

\* lines 264-271, one convert per step; p.Columns[i] is converted in place
doCase2Convert(s, o) ==
    LET i == s.frame.i
        r == convert(s.columns[i + 1])
        s1 == [s EXCEPT !.columns[i + 1] = r.col]
    IN  IF r.err # NoErr THEN Return(s1, NilV, r.err)
        ELSE IF i = 0 THEN [s1 EXCEPT !.frame.i = 1]
        ELSE [s1 EXCEPT !.frame.i = 0, !.frame.pc = "case2_build"]

\* doCase2Build comparing the normalised Logic with the token AND instead of
\* the symbol andSymbol1
doCase2Build_rawToken(s, o) ==
    LET conds == ListV(<<Pred(s.columns[1]), Pred(s.columns[2])>>)
        filter == IF s.columns[1].Logic = AND
                  THEN M1(K_and, conds)
                  ELSE M1(K_or, conds)
    IN  Return([s EXCEPT !.frame.filter = filter], filter, NoErr)

\* lines 272-281
doCase2Build(s, o) ==
    LET conds == ListV(<<Pred(s.columns[1]), Pred(s.columns[2])>>)
        filter == IF s.columns[1].Logic = andSymbol1
                  THEN M1(K_and, conds)
                  ELSE M1(K_or, conds)
    IN  Return([s EXCEPT !.frame.filter = filter], filter, NoErr)

\* lines 289-293 and the choice of the branch of convertMultiColumns
doCheckSameLogic(s, o) ==
    LET r == checkSameLogic(s.columns)
        s1 == [s EXCEPT !.frame.filter = EmptyM,
                        !.frame.logicType = r.logicType,
                        !.frame.groupIndexes = r.groupIndexes,
                        !.frame.orConditions = <<>>,
                        !.frame.i = 0]
    IN  IF r.err # NoErr THEN Return(s1, NilV, r.err)
        ELSE IF r.logicType \in {allLogicAnd, allLogicOr}
        THEN IF Len(s.columns) = 0 THEN Goto(s1, "return_filter")
             ELSE IF r.logicType = allLogicAnd THEN Goto(s1, "and_loop")
             ELSE Goto(s1, "or_loop")
        ELSE Goto(s1, "mix_loop")

\* doAndLoop returning the filter built so far together with the error
doAndLoop_partial(s, o) ==
    LET i == s.frame.i
        column == s.columns[i + 1]
        err == checkName(column, o.whitelistNames)
        r == convert(column)
    IN  IF err # NoErr THEN Return(s, s.frame.filter, err)
        ELSE IF r.err # NoErr THEN Return(s, s.frame.filter, r.err)
        ELSE [s EXCEPT !.frame.filter = appendCond(@, K_and, Pred(r.col)),
                       !.frame.i = i + 1,
                       !.frame.pc = IF i + 1 = Len(s.columns) THEN "return_filter"
                                    ELSE "and_loop"]

\* doAndLoop ranging over pointers: p.Columns[i] is converted in place
doAndLoop_inPlace(s, o) ==
    LET i == s.frame.i
        column == s.columns[i + 1]
        err == checkName(column, o.whitelistNames)
        r == convert(column)
        s1 == [s EXCEPT !.columns[i + 1] = r.col]
    IN  IF err # NoErr THEN Return(s, NilV, err)
        ELSE IF r.err # NoErr THEN Return(s1, NilV, r.err)
        ELSE [s1 EXCEPT !.frame.filter = appendCond(@, K_and, Pred(r.col)),
                        !.frame.i = i + 1,
                        !.frame.pc = IF i + 1 = Len(s.columns) THEN "return_filter"
                                     ELSE "and_loop"]

\* one iteration of lines 295-313; column is a copy of p.Columns[i]
doAndLoop(s, o) ==
    LET i == s.frame.i
        column == s.columns[i + 1]
        err == checkName(column, o.whitelistNames)
        r == convert(column)
    IN  IF err # NoErr THEN Return(s, NilV, err)
        ELSE IF r.err # NoErr THEN Return(s, NilV, r.err)
        ELSE [s EXCEPT !.frame.filter = appendCond(@, K_and, Pred(r.col)),
                       !.frame.i = i + 1,
                       !.frame.pc = IF i + 1 = Len(s.columns) THEN "return_filter"
                                    ELSE "and_loop"]

\* one iteration of lines 316-329; column is a copy of p.Columns[i]
doOrLoop(s, o) ==
    LET i == s.frame.i
        column == s.columns[i + 1]
        r == convert(column)
    IN  IF r.err # NoErr THEN Return(s, NilV, r.err)
        ELSE [s EXCEPT !.frame.filter = appendCond(@, K_or, Pred(r.col)),
                       !.frame.i = i + 1,
                       !.frame.pc = IF i + 1 = Len(s.columns) THEN "return_filter"
                                    ELSE "or_loop"]

\* lines 314 and 330
doReturnFilter(s, o) == Return(s, s.frame.filter, NoErr)

\* one iteration of lines 333-353; each column is a copy of p.Columns[index]
doMixLoop(s, o) ==
    LET i == s.frame.i
        indexes == s.frame.groupIndexes[i + 1]
        conv(k) == convert(s.columns[indexes[k] + 1])
        failed == {k \in 1..Len(indexes) : conv(k).err # NoErr}
        first == CHOOSE k \in failed : \A k2 \in failed : k <= k2
        andConditions == IF Len(indexes) = 0 THEN <<>>
                         ELSE [k \in 1..Len(indexes) |-> Pred(conv(k).col)]
        cond == IF Len(indexes) = 1 THEN Pred(conv(1).col)
                ELSE M1(K_and, ListV(andConditions))
    IN  IF failed # {} THEN Return(s, NilV, conv(first).err)
        ELSE [s EXCEPT !.frame.orConditions = Append(@, cond),
                       !.frame.i = i + 1,
                       !.frame.pc = IF i + 1 = Len(s.frame.groupIndexes) THEN "mix_return"
                                    ELSE "mix_loop"]

\* lines 354-356
doMixReturn(s, o) ==
    LET filter == SetKey(s.frame.filter, K_or, ListV(s.frame.orConditions))
    IN  Return([s EXCEPT !.frame.filter = filter], filter, NoErr)

\* the state n after a step from s, the step recorded in the history
Logged(s, n) == [n EXCEPT !.steps = Append(s.steps, s.frame.pc)]

\* the step at the call's position
Step(s, o) ==
    LET pc == s.frame.pc
        n == CASE pc = "validate" -> doValidate(s, o)
               [] pc = "switch" -> doSwitch(s, o)
               [] pc = "case1_checkName" -> doCase1CheckName(s, o)
               [] pc = "case1_convert" -> doCase1Convert(s, o)
               [] pc = "case2_checkName" -> doCase2CheckName(s, o)
               [] pc = "case2_convert" -> doCase2Convert(s, o)
               [] pc = "case2_build" -> doCase2Build(s, o)
               [] pc = "checkSameLogic" -> doCheckSameLogic(s, o)
               [] pc = "and_loop" -> doAndLoop(s, o)
               [] pc = "or_loop" -> doOrLoop(s, o)
               [] pc = "return_filter" -> doReturnFilter(s, o)
               [] pc = "mix_loop" -> doMixLoop(s, o)
               [] pc = "mix_return" -> doMixReturn(s, o)
               [] OTHER -> s
    IN  Logged(s, n)

\* the call run to its return
RECURSIVE Run(_, _)
Run(s, o) == IF s.frame.pc = "done" THEN s ELSE Run(Step(s, o), o)

\* a call of p.ConvertToMongoFilter(opts...) about to start on cols
NewCall(cols) ==
    [columns |-> cols, frame |-> InitFrame,
     ret |-> [filter |-> NilV, err |-> NoErr], validated |-> <<>>, steps |-> <<>>]

\* a call of p.convertMultiColumns(whitelistNames) about to start on cols
NewMultiCall(cols) == [NewCall(cols) EXCEPT !.frame.pc = "checkSameLogic"]

-----------------------------------------------------------------------------
(* Actions: call c takes the step at its position *)

View(c) ==
    [columns |-> columns[c], frame |-> frame[c], ret |-> ret[c],
     validated |-> validated[c], steps |-> steps[c]]

\* Commit with the filter under construction kept in a package variable: the
\* filter a step writes is the filter of every call
Commit_sharedFilter(c, n) ==
    /\ columns' = [columns EXCEPT ![c] = n.columns]
    /\ frame' = [d \in DOMAIN frame |->
                    IF d = c THEN n.frame
                    ELSE IF n.frame.filter = NilV THEN frame[d]
                    ELSE [frame[d] EXCEPT !.filter = n.frame.filter]]
    /\ ret' = [ret EXCEPT ![c] = n.ret]
    /\ validated' = [validated EXCEPT ![c] = n.validated]
    /\ steps' = [steps EXCEPT ![c] = n.steps]
    /\ UNCHANGED <<opts, input, expMap, logicMap>>

\* the step writes the call's own Params, locals and results, nothing else
Commit(c, n) ==
    /\ columns' = [columns EXCEPT ![c] = n.columns]
    /\ frame' = [frame EXCEPT ![c] = n.frame]
    /\ ret' = [ret EXCEPT ![c] = n.ret]
    /\ validated' = [validated EXCEPT ![c] = n.validated]
    /\ steps' = [steps EXCEPT ![c] = n.steps]
    /\ UNCHANGED <<opts, input, expMap, logicMap>>

At(c, pc) == frame[c].pc = pc

Validate(c) ==
    At(c, "validate") /\ \E n \in {Logged(View(c), doValidate(View(c), opts[c]))} : Commit(c, n)
Switch(c) ==
    At(c, "switch") /\ \E n \in {Logged(View(c), doSwitch(View(c), opts[c]))} : Commit(c, n)
Case1CheckName(c) ==
    At(c, "case1_checkName") /\ \E n \in {Logged(View(c), doCase1CheckName(View(c), opts[c]))} : Commit(c, n)
Case1Convert(c) ==
    At(c, "case1_convert") /\ \E n \in {Logged(View(c), doCase1Convert(View(c), opts[c]))} : Commit(c, n)
Case2CheckName(c) ==
    At(c, "case2_checkName") /\ \E n \in {Logged(View(c), doCase2CheckName(View(c), opts[c]))} : Commit(c, n)
Case2Convert(c) ==
    At(c, "case2_convert") /\ \E n \in {Logged(View(c), doCase2Convert(View(c), opts[c]))} : Commit(c, n)
Case2Build(c) ==
    At(c, "case2_build") /\ \E n \in {Logged(View(c), doCase2Build(View(c), opts[c]))} : Commit(c, n)
CheckSameLogic(c) ==
    At(c, "checkSameLogic") /\ \E n \in {Logged(View(c), doCheckSameLogic(View(c), opts[c]))} : Commit(c, n)
AndLoop(c) ==
    At(c, "and_loop") /\ \E n \in {Logged(View(c), doAndLoop(View(c), opts[c]))} : Commit(c, n)
OrLoop(c) ==
    At(c, "or_loop") /\ \E n \in {Logged(View(c), doOrLoop(View(c), opts[c]))} : Commit(c, n)
ReturnFilter(c) ==
    At(c, "return_filter") /\ \E n \in {Logged(View(c), doReturnFilter(View(c), opts[c]))} : Commit(c, n)
MixLoop(c) ==
    At(c, "mix_loop") /\ \E n \in {Logged(View(c), doMixLoop(View(c), opts[c]))} : Commit(c, n)
MixReturn(c) ==
    At(c, "mix_return") /\ \E n \in {Logged(View(c), doMixReturn(View(c), opts[c]))} : Commit(c, n)

Calls == DOMAIN frame

Next ==
    \/ \E c \in Calls : Validate(c)
    \/ \E c \in Calls : Switch(c)
    \/ \E c \in Calls : Case1CheckName(c)
    \/ \E c \in Calls : Case1Convert(c)
    \/ \E c \in Calls : Case2CheckName(c)
    \/ \E c \in Calls : Case2Convert(c)
    \/ \E c \in Calls : Case2Build(c)
    \/ \E c \in Calls : CheckSameLogic(c)
    \/ \E c \in Calls : AndLoop(c)
    \/ \E c \in Calls : OrLoop(c)
    \/ \E c \in Calls : ReturnFilter(c)
    \/ \E c \in Calls : MixLoop(c)
    \/ \E c \in Calls : MixReturn(c)

-----------------------------------------------------------------------------
(* Inputs *)

Hex24 == <<"5","0","7","F","1","f","7","7","b","c","f","8",
           "6","c","d","7","9","9","4","3","9","0","1","1">>

PlainName(k) == <<LowerChars[k]>>

\* the plain column of position k: {name: <k-th letter>, exp: "eq", value: v}
Plain(k, v, logic) == Col(PlainName(k), Eq, IntV(v), logic)

BaseLogics == {AND, <<"O","R">>}
OddLogics == {<<>>, orSymbol2, <<"x","y","z">>}

\* the name, operator and value of a column that is not plain
Bodies(k) ==
    { [Name |-> <<>>, Exp |-> Eq, Value |-> IntV(k)],
      [Name |-> PlainName(k), Exp |-> Eq, Value |-> NilV],
      [Name |-> PlainName(k), Exp |-> <<"b","e","t","w","e","e","n">>, Value |-> IntV(k)],
      [Name |-> PlainName(k), Exp |-> In, Value |-> IntV(k)],
      [Name |-> <<"z">>, Exp |-> Eq, Value |-> IntV(k)],
      [Name |-> <<"w">>, Exp |-> Eq, Value |-> IntV(k)],
      [Name |-> PlainName(k), Exp |-> <<"G","T">>, Value |-> IntV(k)],
      [Name |-> PlainName(k), Exp |-> NotIn, Value |-> StrV(<<"x",",","y">>)],
      [Name |-> PlainName(k), Exp |-> Like, Value |-> StrV(<<"a",".","b">>)],
      [Name |-> <<"i","d">>, Exp |-> <<>>, Value |-> StrV(Hex24)],
      [Name |-> <<"u",":","o","i","d">>, Exp |-> Neq, Value |-> StrV(Hex24)] }

PlainList(n, lp, base) ==
    IF n = 0 THEN <<>> ELSE [k \in 1..n |-> Plain(k, base + k, lp[k])]

PlainLists(n) == {PlainList(n, lp, 0) : lp \in [1..n -> BaseLogics]}

\* lists of n columns: plain ones, with at most one column that is not plain
\* or one logic token that is not a base one
InputLists(n) ==
    PlainLists(n)
    \cup UNION {{[l EXCEPT ![i] = Col(b.Name, b.Exp, b.Value, @.Logic)] :
                    l \in PlainLists(n), b \in Bodies(i)} : i \in 1..n}
    \cup UNION {{[l EXCEPT ![i].Logic = t] :
                    l \in PlainLists(n), t \in OddLogics} : i \in 1..n}

WhitelistNames ==
    {PlainName(k) : k \in 1..MaxCols} \cup {<<"i","d">>, <<"u",":","o","i","d">>, <<"w">>}

\* every plain name, "id" and "u:oid" set to true, "w" set to false
Whitelist == MapV([nm \in WhitelistNames |-> nm # <<"w">>])

Options(wl, vf) == [whitelistNames |-> wl, validateFn |-> vf]

\* one call: the list and the options it is invoked with
SeqInputs ==
    UNION { {[cols |-> l, opts |-> Options(wl, "none")] :
                l \in InputLists(n), wl \in {NilWhitelist, Whitelist}}
            \cup {[cols |-> l, opts |-> Options(wl, vf)] :
                l \in PlainLists(n), wl \in {NilWhitelist, Whitelist}, vf \in {"accept", "reject"}}
          : n \in 0..MaxCols }

\* the list of a concurrent call c: n plain columns of its own
ConcList(c, d) ==
    [k \in 1..d.n |->
        Plain(k, 10 * c + k,
              IF d.pat = "or" \/ (d.pat = "mix" /\ k = 1) THEN OR ELSE AND)]

ConcChoices ==
    UNION { {[n |-> n, pat |-> pat, vf |-> "none"] :
                pat \in IF n = 1 THEN {"and"} ELSE IF n = 2 THEN {"and", "or"}
                        ELSE {"and", "or", "mix"}}
            \cup (IF n = 1 THEN {[n |-> n, pat |-> "and", vf |-> "reject"]} ELSE {})
          : n \in 1..ConcMaxCols }

InitCalls(in) ==
    /\ columns = [c \in DOMAIN in |-> in[c].cols]
    /\ input = [c \in DOMAIN in |-> in[c].cols]
    /\ opts = [c \in DOMAIN in |-> in[c].opts]
    /\ frame = [c \in DOMAIN in |-> InitFrame]
    /\ ret = [c \in DOMAIN in |-> [filter |-> NilV, err |-> NoErr]]
    /\ validated = [c \in DOMAIN in |-> <<>>]
    /\ steps = [c \in DOMAIN in |-> <<>>]
    /\ expMap = expMapInit
    /\ logicMap = logicMapInit

\* one caller
Init == \E i \in SeqInputs : InitCalls([c \in {1} |-> i])

Spec == Init /\ [][Next]_vars

\* NumCalls concurrent callers, each with its own Params
InitConc ==
    \E ch \in [1..NumCalls -> ConcChoices] :
        InitCalls([c \in 1..NumCalls |->
                      [cols |-> ConcList(c, ch[c]),
                       opts |-> Options(NilWhitelist, ch[c].vf)]])

SpecConc == InitConc /\ [][Next]_vars

-----------------------------------------------------------------------------
(* Vocabulary of the properties *)

Done(c) == frame[c].pc = "done"
Succeeded(c) == Done(c) /\ ret[c].err = NoErr
Failed(c) == Done(c) /\ ret[c].err # NoErr
Rejected(c) == opts[c].validateFn = "reject"

\* what a caller observes: an error, or the filter
Outcome(r) == IF r.err # NoErr THEN [error |-> TRUE] ELSE [error |-> FALSE, filter |-> r.filter]

\* the column passes the whitelist check and its normalisation
Valid(col, wl) == checkName(col, wl) = NoErr /\ convert(col).err = NoErr
AllValid(c) == \A k \in 1..Len(input[c]) : Valid(input[c][k], opts[c].whitelistNames)

\* the normalised single-field predicate of a column
NormPred(col) == Pred(convert(col).col)
NormPreds(cols) == IF cols = <<>> THEN <<>> ELSE [k \in 1..Len(cols) |-> NormPred(cols[k])]

\* the indexes among 0..N-2 whose normalised logic is OR
OrMarked(cols) ==
    {i \in 0..(Len(cols) - 2) : convertLogic(cols[i + 1]).col.Logic = orSymbol1}

Mixed(cols) == OrMarked(cols) # {} /\ OrMarked(cols) # 0..(Len(cols) - 2)

\* the run that starts at index s: it ends at the first OR-marked index >= s,
\* or at the last column
RunEnd(s, ors, n) ==
    IF \E e \in ors : e >= s
    THEN CHOOSE e \in ors : e >= s /\ \A e2 \in ors : e2 >= s => e <= e2
    ELSE n - 1

RECURSIVE RunsFrom(_, _, _)
RunsFrom(s, ors, n) ==
    IF s > n - 1 THEN <<>>
    ELSE <<Range(s, RunEnd(s, ors, n))>> \o RunsFrom(RunEnd(s, ors, n) + 1, ors, n)

EmitRun(cols, run) ==
    IF Len(run) > 1
    THEN M1(K_and, ListV([k \in 1..Len(run) |-> NormPred(cols[run[k] + 1])]))
    ELSE NormPred(cols[run[1] + 1])

ExpectedMixed(cols) ==
    LET runs == RunsFrom(0, OrMarked(cols), Len(cols))
    IN  M1(K_or, ListV([k \in 1..Len(runs) |-> EmitRun(cols, runs[k])]))

\* C4's bad column: empty Name, nil Value, unrecognised Exp, or in/nin on a
\* value that is no string
BadColumn(col) ==
    \/ col.Name = <<>>
    \/ col.Value = NilV
    \/ (col.Exp # <<>> /\ ToLower(col.Exp) \notin DOMAIN expMapInit)
    \/ /\ col.Exp # <<>>
       /\ ToLower(col.Exp) \in DOMAIN expMapInit
       /\ expMapInit[ToLower(col.Exp)] \in {In, NotIn}
       /\ col.Value.kind # "str"

LastLogicTokens == BaseLogics \cup OddLogics \cup {AND, OR, andSymbol1}

-----------------------------------------------------------------------------
(* Properties *)

\* C1: a list of N >= 3 valid columns with mixed logic gives {$or: runs}, the
\* runs ending at each OR-marked index, a run of several columns emitted as
\* {$and: [...]} and a run of one as the bare predicate.
C1_MixedRuns ==
    \A c \in Calls :
        (Done(c) /\ ~Rejected(c) /\ Len(input[c]) >= 3 /\ AllValid(c) /\ Mixed(input[c]))
            => ret[c] = [filter |-> ExpectedMixed(input[c]), err |-> NoErr]

\* C2: with a whitelist configured, a list holding a column whose Name is
\* empty or not set to true in the whitelist gives an error and no filter.
C2_WhitelistRejects ==
    \A c \in Calls :
        (/\ Done(c)
         /\ opts[c].whitelistNames # NilWhitelist
         /\ \E k \in 1..Len(input[c]) :
                checkName(input[c][k], opts[c].whitelistNames) # NoErr)
            => (ret[c].err # NoErr /\ ret[c].filter = NilV)

\* C3: the outcome does not depend on the Logic string of the last column.
C3_LastLogicIgnored ==
    \A c \in Calls :
        (Done(c) /\ Len(input[c]) >= 1)
            => \A t \in LastLogicTokens :
                  Outcome(ret[c]) =
                  Outcome(Run(NewCall([input[c] EXCEPT ![Len(input[c])].Logic = t]),
                              opts[c]).ret)

\* C4: a bad column at any position makes the call return an error.
C4_BadColumnAborts ==
    \A c \in Calls :
        (Done(c) /\ \E k \in 1..Len(input[c]) : BadColumn(input[c][k]))
            => ret[c].err # NoErr

\* C5: whenever the returned error is non-nil the returned filter is nil,
\* also when columns were already added to the filter under construction.
C5_NoPartialFilter ==
    \A c \in Calls :
        /\ Failed(c) => ret[c].filter = NilV
        /\ ~Done(c) => ret[c] = [filter |-> NilV, err |-> NoErr]

\* C5 witness: a call failed after predicates were added to its filter
C5_Witness ==
    \E c \in Calls :
        /\ Failed(c)
        /\ Len(input[c]) >= 3
        /\ frame[c].filter \notin {NilV, EmptyM}
        /\ ret[c].filter = NilV

\* C6: N >= 2 valid columns whose logic 0..N-2 is all AND give exactly
\* {$and: [p0..pN-1]}, all OR exactly {$or: [p0..pN-1]}, in input order.
C6_UniformLogic ==
    \A c \in Calls :
        (Done(c) /\ ~Rejected(c) /\ Len(input[c]) >= 2 /\ AllValid(c))
            => /\ OrMarked(input[c]) = {}
                    => ret[c] = [filter |-> M1(K_and, ListV(NormPreds(input[c]))),
                                 err |-> NoErr]
               /\ OrMarked(input[c]) = 0..(Len(input[c]) - 2)
                    => ret[c] = [filter |-> M1(K_or, ListV(NormPreds(input[c]))),
                                 err |-> NoErr]

\* C6 witness: three or more valid columns, all OR, converted
C6_Witness ==
    \E c \in Calls :
        /\ Succeeded(c) /\ AllValid(c)
        /\ Len(input[c]) >= 3
        /\ OrMarked(input[c]) = 0..(Len(input[c]) - 2)
        /\ K_or \in DOMAIN ret[c].filter.m

\* C7: on lists of 0, 1 or 2 columns ConvertToMongoFilter gives the outcome
\* of the general routine convertMultiColumns run on the same raw input.
C7_FastPathsAsGeneral ==
    \A c \in Calls :
        (Done(c) /\ ~Rejected(c) /\ Len(input[c]) <= 2)
            => Outcome(ret[c]) = Outcome(Run(NewMultiCall(input[c]), opts[c]).ret)

\* C8: a supplied validateFn is invoked exactly once, on the raw columns and
\* before any other step; when it fails the call returns (nil, its error)
\* and every column is unchanged.
C8_ValidateFirst ==
    \A c \in Calls :
        opts[c].validateFn # "none"
            => /\ Len(validated[c]) = IF frame[c].pc = "validate" THEN 0 ELSE 1
               /\ \A k \in 1..Len(validated[c]) :
                      validated[c][k] = [columns |-> input[c], before |-> <<>>]
               /\ (Rejected(c) /\ frame[c].pc # "validate")
                    => /\ Done(c)
                       /\ ret[c] = [filter |-> NilV, err |-> ErrValidate]
                       /\ columns[c] = input[c]
                       /\ steps[c] = <<"validate">>

\* C8 witness: validateFn rejected a list of columns
C8_Witness ==
    \E c \in Calls :
        /\ Rejected(c) /\ Done(c)
        /\ Len(input[c]) >= 1
        /\ Len(validated[c]) = 1

\* C9: under every interleaving each call returns the outcome it returns
\* when run alone, and no step writes expMap or logicMap.
C9_NoInterference ==
    /\ expMap = expMapInit
    /\ logicMap = logicMapInit
    /\ \A c \in Calls :
          Done(c) => \A alone \in {Run(NewCall(input[c]), opts[c])} :
                        /\ ret[c] = alone.ret
                        /\ columns[c] = alone.columns

\* C9 witness: two calls on lists of three or more columns returned, one of
\* them through the mixed branch
C9_Witness ==
    \E c, d \in Calls :
        /\ c # d
        /\ Succeeded(c) /\ Succeeded(d)
        /\ Len(input[c]) >= 3 /\ Len(input[d]) >= 3
        /\ Mixed(input[c])
        /\ ret[c] # ret[d]

\* C10 as stated: after a successful call every column of the caller's list
\* holds its normalised state, whatever the length of the list.
C10_EveryPathInPlace ==
    \A c \in Calls :
        Succeeded(c)
            => \A k \in 1..Len(input[c]) : columns[c][k] = convert(input[c][k]).col

\* C10 amended: after a successful call on 1 or 2 columns every column holds
\* its normalised state; on 3 or more columns the call converts copies and
\* the caller's columns are unchanged.
C10_InPlaceUpToTwo ==
    \A c \in Calls :
        Succeeded(c)
            => /\ Len(input[c]) \in {1, 2}
                    => \A k \in 1..Len(input[c]) :
                          columns[c][k] = convert(input[c][k]).col
               /\ Len(input[c]) >= 3 => columns[c] = input[c]

\* C10 witness: a successful call on three or more columns left columns
\* whose normalised state differs from the raw one
C10_Witness ==
    \E c \in Calls :
        /\ Succeeded(c)
        /\ Len(input[c]) >= 3
        /\ columns[c] = input[c]
        /\ \A k \in 1..Len(input[c]) : convert(input[c][k]).col # input[c][k]

\* C11: normalising a normalised token gives the same token: for every key t
\* of expMap, expMap[expMap[t]] = expMap[t], likewise for logicMap; hence
\* convertLogic on a column it has normalised succeeds and leaves it as it is.
C11_Idempotent ==
    /\ \A t \in DOMAIN expMap :
          /\ ToLower(expMap[t]) \in DOMAIN expMap
          /\ expMap[ToLower(expMap[t])] = expMap[t]
    /\ \A t \in DOMAIN logicMap :
          /\ ToLower(logicMap[t]) \in DOMAIN logicMap
          /\ logicMap[ToLower(logicMap[t])] = logicMap[t]
    /\ \A c \in Calls : \A k \in 1..Len(input[c]) :
          \A r \in {convertLogic(input[c][k])} :
              r.err = NoErr => convertLogic(r.col) = r
    /\ \A c \in Calls : \A k \in 1..Len(columns[c]) :
          columns[c][k].Logic \in {andSymbol1, orSymbol1}
              => convertLogic(columns[c][k]) = [col |-> columns[c][k], err |-> NoErr]

\* C11 witness: a column given the token "OR" was normalised in place to "|",
\* and normalising it again succeeds
C11_Witness ==
    \E c \in Calls :
        /\ Succeeded(c)
        /\ Len(input[c]) \in {1, 2}
        /\ input[c][1].Logic = <<"O","R">>
        /\ columns[c][1].Logic = orSymbol1
        /\ convertLogic(columns[c][1]).err = NoErr

\* the concatenation of a sequence of sequences
RECURSIVE Flatten(_)
Flatten(ss) == IF ss = <<>> THEN <<>> ELSE Head(ss) \o Flatten(Tail(ss))

\* the leaf predicates of a filter, left to right: a filter whose key is
\* $and or $or holds the leaves of its members, any other filter is a leaf
RECURSIVE Leaves(_)
Leaves(f) ==
    IF f.m = <<>> THEN <<>>
    ELSE IF K_and \in DOMAIN f.m
    THEN Flatten([k \in 1..Len(f.m[K_and].items) |-> Leaves(f.m[K_and].items[k])])
    ELSE IF K_or \in DOMAIN f.m
    THEN Flatten([k \in 1..Len(f.m[K_or].items) |-> Leaves(f.m[K_or].items[k])])
    ELSE <<f>>

\* C12: no column is dropped or duplicated: for N >= 1 valid columns the
\* filter holds exactly N leaves, the i-th being the predicate of column i,
\* and in the mixed case the groups of groupingIndex are non-empty and their
\* concatenation is 0, 1, ..., N-1.
C12_NoDropNoDup ==
    \A c \in Calls :
        (Done(c) /\ ~Rejected(c) /\ Len(input[c]) >= 1 /\ AllValid(c))
            => /\ ret[c].err = NoErr
               /\ Leaves(ret[c].filter) = NormPreds(input[c])
               /\ (Len(input[c]) >= 3 /\ Mixed(input[c]))
                    => /\ \A g \in 1..Len(frame[c].groupIndexes) :
                              frame[c].groupIndexes[g] # <<>>
                       /\ Flatten(frame[c].groupIndexes) = Range(0, Len(input[c]) - 1)

====
